---------------------------- MODULE Spec2Model ----------------------------
(***************************************************************************)
(* Model of src/cmd/extrinsics/transcode/encode.rs (cargo-contract): the   *)
(* type-directed encoder that turns a ron::Value into SCALE bytes.         *)
(*                                                                         *)
(* Representation                                                          *)
(*   byte            a number in 0..255                                    *)
(*   i64 / u64 ...   little-endian sequences of bytes (two's complement    *)
(*                   for i64): the widths 2^32, 2^64 and 2^128 must be     *)
(*                   kept exactly, so numbers are never held as one Int    *)
(*   String          a sequence of one-character strings                   *)
(*   ron::Value      a record tagged by k                                  *)
(*   TypeDef         a record tagged by def                                *)
(*   Result<()>      "Ok" or the kind of the error; "panic" for the        *)
(*                   unwinding of unimplemented!()                         *)
(***************************************************************************)
EXTENDS Integers, Sequences, FiniteSets, TLC

(***************************************************************************)
(* Bounds of the explored inputs.                                          *)
(***************************************************************************)
MaxStrLen == 3
MaxSeqLen == 2
MaxSepRun == 1

(***************************************************************************)
(* Characters                                                              *)
(***************************************************************************)
DecDigits == <<"0", "1", "2", "3", "4", "5", "6", "7", "8", "9">>
LowerHex == <<"a", "b", "c", "d", "e", "f">>
UpperHex == <<"A", "B", "C", "D", "E", "F">>

RECURSIVE IndexIn(_, _, _)
IndexIn(c, tab, k) ==
    IF k > Len(tab) THEN 0
    ELSE IF tab[k] = c THEN k
    ELSE IndexIn(c, tab, k + 1)

\* char::to_digit(10): 0..9, or -1 for None
ToDigit(c) == IndexIn(c, DecDigits, 1) - 1

\* hex::val: the value of one hex character (either case), or -1 for
\* FromHexError::InvalidHexCharacter
HexVal(c) ==
    IF IndexIn(c, DecDigits, 1) > 0 THEN IndexIn(c, DecDigits, 1) - 1
    ELSE IF IndexIn(c, LowerHex, 1) > 0 THEN IndexIn(c, LowerHex, 1) + 9
    ELSE IF IndexIn(c, UpperHex, 1) > 0 THEN IndexIn(c, UpperHex, 1) + 9
    ELSE -1

\* the UTF-8 encoding of the characters that occur in the explored strings
\* (all of them ASCII, one byte each)
Utf8(c) ==
    IF ToDigit(c) >= 0 THEN 48 + ToDigit(c)
    ELSE IF IndexIn(c, LowerHex, 1) > 0 THEN 96 + IndexIn(c, LowerHex, 1)
    ELSE IF IndexIn(c, UpperHex, 1) > 0 THEN 64 + IndexIn(c, UpperHex, 1)
    ELSE CASE c = "x" -> 120
           [] c = "_" -> 95
           [] c = "," -> 44
           [] c = "+" -> 43
           [] c = "-" -> 45
           [] OTHER -> 63

(***************************************************************************)
(* Fixed-width integers as little-endian byte sequences                    *)
(***************************************************************************)
Zeros(n) == [k \in 1..n |-> 0]

\* bs * m + a over Len(bs) bytes; carry is what does not fit
RECURSIVE MulAddFrom(_, _, _, _)
MulAddFrom(bs, m, carry, k) ==
    IF k > Len(bs) THEN [bytes |-> bs, carry |-> carry]
    ELSE LET t == bs[k] * m + carry
         IN MulAddFrom([bs EXCEPT ![k] = t % 256], m, t \div 256, k + 1)

MulAdd(bs, m, a) == MulAddFrom(bs, m, a, 1)

\* i64: the sign bit
IsNegative(i) == i[8] >= 128


\* a variant of TryInto that converts as `i as uN` does: no range check,
\* the low bytes are kept
TryInto_Wrapping(i, w) ==
    [err |-> "Ok",
     u |-> [k \in 1..w |-> IF k <= 8 THEN i[k]
                           ELSE IF IsNegative(i) THEN 255 ELSE 0]]

\* i64 -> uN (TryFrom): Err(TryFromIntError) when the value is negative or
\* exceeds uN::MAX; w is the width of uN in bytes
TryInto(i, w) ==
    IF IsNegative(i) \/ (\E k \in (w + 1)..8 : i[k] # 0)
    THEN [err |-> "NumericConversion", u |-> <<>>]
    ELSE [err |-> "Ok", u |-> [k \in 1..w |-> IF k <= 8 THEN i[k] ELSE 0]]

\* uN::from_str (core::num::from_str_radix, radix 10, unsigned target):
\* empty -> Err; one leading '+' is accepted; then every character must be
\* a digit and result = result.checked_mul(10)?.checked_add(digit)?
RECURSIVE ParseDigits(_, _, _)
ParseDigits(digits, k, acc) ==
    IF k > Len(digits) THEN [err |-> "Ok", u |-> acc]
    ELSE IF ToDigit(digits[k]) < 0 THEN [err |-> "NumericParse", u |-> <<>>]
    ELSE LET r == MulAdd(acc, 10, ToDigit(digits[k]))
         IN IF r.carry # 0 THEN [err |-> "NumericParse", u |-> <<>>]
            ELSE ParseDigits(digits, k + 1, r.bytes)

FromStr(src, w) ==
    IF Len(src) = 0 THEN [err |-> "NumericParse", u |-> <<>>]
    ELSE LET digits == IF src[1] = "+" THEN Tail(src) ELSE src
         IN IF Len(digits) = 0 THEN [err |-> "NumericParse", u |-> <<>>]
            ELSE ParseDigits(digits, 1, Zeros(w))

\* s.replace(&['_', ','][..], "")
IsSeparator(c) == c \in {"_", ","}

\* a variant of Sanitize that removes '_' only
Sanitize_UnderscoreOnly(s) == SelectSeq(s, LAMBDA c : c # "_")

Sanitize(s) == SelectSeq(s, LAMBDA c : ~IsSeparator(c))

\* s.trim_start_matches("0x"): the prefix is removed as often as it occurs
RECURSIVE TrimStartMatches0x(_)
TrimStartMatches0x(s) ==
    IF Len(s) >= 2 /\ s[1] = "0" /\ s[2] = "x"
    THEN TrimStartMatches0x(SubSeq(s, 3, Len(s)))
    ELSE s

\* hex::decode: Err(OddLength) on an odd number of characters, otherwise
\* one byte per pair, Err(InvalidHexCharacter) on any other character
HexDecode(h) ==
    IF Len(h) % 2 # 0 THEN [err |-> "HexDecodeError", bytes |-> <<>>]
    ELSE IF \E k \in 1..Len(h) : HexVal(h[k]) < 0
    THEN [err |-> "HexDecodeError", bytes |-> <<>>]
    ELSE [err |-> "Ok",
          bytes |-> [k \in 1..(Len(h) \div 2) |->
                        HexVal(h[2 * k - 1]) * 16 + HexVal(h[2 * k])]]

\* Compact<u32>::encode_to of a length (parity-scale-codec): single-byte,
\* two-byte and four-byte mode
CompactLen(n) ==
    IF n < 64 THEN <<n * 4>>
    ELSE IF n < 16384 THEN <<(n * 4 + 1) % 256, (n * 4 + 1) \div 256>>
    ELSE <<(n % 64) * 4 + 2, (n \div 64) % 256, (n \div 16384) % 256,
           (n \div 4194304) % 256>>

\* <str as Encode>::encode_to: compact length, then the UTF-8 bytes
EncodeStr(s) == CompactLen(Len(s)) \o [k \in 1..Len(s) |-> Utf8(s[k])]

\* <bool as Encode>::encode_to
EncodeBool(b) == IF b THEN <<1>> ELSE <<0>>

(***************************************************************************)
(* ron::Value                                                              *)
(***************************************************************************)
VBool(b) == [k |-> "Bool", b |-> b]
VString(s) == [k |-> "String", s |-> s]
VInteger(i) == [k |-> "Integer", i |-> i]
VFloat == [k |-> "Float"]
VSeq(vs) == [k |-> "Seq", vs |-> vs]
\* a Map is held as its entries in the order map.values() iterates them,
\* each <<key, value>>; the encoder reads nothing else of the map
VMap(kvs) == [k |-> "Map", kvs |-> kvs]

\* map.values()
MapValues(m) == [n \in 1..Len(m.kvs) |-> m.kvs[n][2]]

(***************************************************************************)
(* scale_info type definitions and the registry                            *)
(***************************************************************************)
Primitive(kind) == [def |-> "Primitive", kind |-> kind]
Array(param) == [def |-> "Array", param |-> param]
Composite(fields) == [def |-> "Composite", fields |-> fields]
Field(name, ty) == [name |-> name, ty |-> ty]
Variant == [def |-> "Variant"]
Tuple == [def |-> "Tuple"]

\* The registry the encoder is run against.  Besides every primitive kind
\* it holds arrays and composites, types that refer to themselves, types
\* the encoder does not implement, and references to no type at all.
Registry ==
    [id \in {"bool", "char", "str", "u8", "u16", "u32", "u64", "u128", "i8"}
        |-> Primitive(CASE id = "bool" -> "Bool" [] id = "char" -> "Char"
                        [] id = "str" -> "Str" [] id = "u8" -> "U8"
                        [] id = "u16" -> "U16" [] id = "u32" -> "U32"
                        [] id = "u64" -> "U64" [] id = "u128" -> "U128"
                        [] id = "i8" -> "I8")]
    @@ [id \in {"[u8]"} |-> Array("u8")]
    @@ [id \in {"Pair"} |-> Composite(<<Field("a", "u8"), Field("b", "bool")>>)]
    @@ [id \in {"[Pair]"} |-> Array("Pair")]
    @@ [id \in {"Amount"} |-> Composite(<<Field("value", "u64"), Field("tag", "[u8]")>>)]
    @@ [id \in {"Link"} |-> Composite(<<Field("head", "u8"), Field("next", "Link")>>)]
    @@ [id \in {"Nest"} |-> Array("Nest")]
    @@ [id \in {"Enum"} |-> Variant]
    @@ [id \in {"(,)"} |-> Tuple]
    @@ [id \in {"WithEnum"} |-> Composite(<<Field("n", "u8"), Field("e", "Enum")>>)]
    @@ [id \in {"[?]"} |-> Array("missing")]
    @@ [id \in {"Broken"} |-> Composite(<<Field("n", "u8"), Field("m", "missing")>>)]

TypeIds == DOMAIN Registry

\* super::resolve_type
ResolveType(id) ==
    IF id \in TypeIds THEN [err |-> "Ok", ty |-> Registry[id]]
    ELSE [err |-> "UnknownType", ty |-> Tuple]

(***************************************************************************)
(* The encoder as a function: [err, out], where out holds the bytes        *)
(* appended to the output, also those appended before an error.            *)
(***************************************************************************)
Ok(bytes) == [err |-> "Ok", out |-> bytes]
Err(kind) == [err |-> kind, out |-> <<>>]

\* the unsigned kinds that take Value::Number(Number::Integer(i)), with
\* their width in bytes
IntWidth(kind) ==
    CASE kind = "U8" -> 1 [] kind = "U16" -> 2 [] kind = "U32" -> 4
      [] kind = "U64" -> 8 [] kind = "U128" -> 16 [] OTHER -> 0

\* let u: uN = (*i).try_into()?; u.encode_to(output); Ok(())
EncodeInteger(i, w) ==
    LET r == TryInto(i, w)
    IN IF r.err = "Ok" THEN Ok(r.u) ELSE Err(r.err)

\* let sanitized = s.replace(..); let u = uN::from_str(&sanitized)?;
\* u.encode_to(output); Ok(())
EncodeNumericString(s, w) ==
    LET r == FromStr(Sanitize(s), w)
    IN IF r.err = "Ok" THEN Ok(r.u) ELSE Err(r.err)

\* impl EncodeValue for TypeDefPrimitive
EncodePrimitive(kind, value) ==
    CASE kind = "Bool" ->
            IF value.k = "Bool" THEN Ok(EncodeBool(value.b))
            ELSE Err("TypeMismatch")
      [] kind = "Char" -> Err("UnsupportedType")
      [] kind = "Str" ->
            IF value.k = "String" THEN Ok(EncodeStr(value.s))
            ELSE Err("TypeMismatch")
      [] kind \in {"U8", "U16", "U32"} ->
            IF value.k = "Integer" THEN EncodeInteger(value.i, IntWidth(kind))
            ELSE Err("TypeMismatch")
      [] kind \in {"U64", "U128"} ->
            IF value.k = "Integer" THEN EncodeInteger(value.i, IntWidth(kind))
            ELSE IF value.k = "String"
            THEN EncodeNumericString(value.s, IntWidth(kind))
            ELSE Err("TypeMismatch")
      [] OTHER -> Err("panic")

\* a variant of EncodeByteString that writes the bytes as a Vec<u8>, with
\* their number in front
EncodeByteString_LengthPrefixed(ty, s) ==
    IF ty = Primitive("U8")
    THEN LET d == HexDecode(TrimStartMatches0x(s))
         IN IF d.err = "Ok" THEN Ok(CompactLen(Len(d.bytes)) \o d.bytes)
            ELSE Err(d.err)
    ELSE Err("TypeMismatch")

\* TypeDefArray, Value::String(s) arm
EncodeByteString(ty, s) ==
    IF ty = Primitive("U8")
    THEN LET d == HexDecode(TrimStartMatches0x(s))
         IN IF d.err = "Ok" THEN Ok(d.bytes) ELSE Err(d.err)
    ELSE Err("TypeMismatch")

\* self.fields().iter().zip(map.values()): the number of pairs
ZipLen(fields, values) ==
    IF Len(fields) <= Len(values) THEN Len(fields) ELSE Len(values)

RECURSIVE EncodeValueTo(_, _)
RECURSIVE EncodeElements(_, _, _)
RECURSIVE EncodeFields(_, _, _, _)

\* for value in values { ty.encode_value_to(registry, value, output)?; }
EncodeElements(ty, values, n) ==
    IF n > Len(values) THEN Ok(<<>>)
    ELSE LET r == EncodeValueTo(ty, values[n])
         IN IF r.err # "Ok" THEN r
            ELSE LET rest == EncodeElements(ty, values, n + 1)
                 IN [err |-> rest.err, out |-> r.out \o rest.out]

\* impl EncodeValue for Field<CompactForm>
EncodeField(field, value) ==
    LET ty == ResolveType(field.ty)
    IN IF ty.err # "Ok" THEN Err(ty.err)
       ELSE EncodeValueTo(ty.ty, value)

\* for (field, value) in zip { field.encode_value_to(registry, value, output)?; }
EncodeFields(fields, values, n, last) ==
    IF n > last THEN Ok(<<>>)
    ELSE LET r == EncodeField(fields[n], values[n])
         IN IF r.err # "Ok" THEN r
            ELSE LET rest == EncodeFields(fields, values, n + 1, last)
                 IN [err |-> rest.err, out |-> r.out \o rest.out]

\* impl EncodeValue for TypeDefArray<CompactForm>
EncodeArray(array, value) ==
    LET ty == ResolveType(array.param)
    IN IF ty.err # "Ok" THEN Err(ty.err)
       ELSE IF value.k = "String" THEN EncodeByteString(ty.ty, value.s)
       ELSE IF value.k = "Seq" THEN EncodeElements(ty.ty, value.vs, 1)
       ELSE Err("TypeMismatch")

\* impl EncodeValue for TypeDefComposite<CompactForm>
EncodeComposite(composite, value) ==
    IF value.k = "Map"
    THEN EncodeFields(composite.fields, MapValues(value), 1,
                      ZipLen(composite.fields, MapValues(value)))
    ELSE Err("TypeMismatch")

\* impl EncodeValue for TypeDef<CompactForm> (and for Type<CompactForm>,
\* which delegates to its type_def())
EncodeValueTo(def, value) ==
    CASE def.def = "Array" -> EncodeArray(def, value)
      [] def.def = "Primitive" -> EncodePrimitive(def.kind, value)
      [] def.def = "Composite" -> EncodeComposite(def, value)
      [] OTHER -> Err("panic")

(***************************************************************************)
(* The explored inputs                                                     *)
(***************************************************************************)
\* an i64 from its low bytes, sign-extended by fill (0 or 255)
I64(low, fill) == [k \in 1..8 |-> IF k <= Len(low) THEN low[k] ELSE fill]

Integers64 ==
    { I64(<<>>, 0), I64(<<1>>, 0), I64(<<7>>, 0), I64(<<255>>, 0),
      I64(<<0, 1>>, 0), I64(<<255, 255>>, 0), I64(<<0, 0, 1>>, 0),
      I64(<<64, 66, 15>>, 0), I64(<<255, 255, 255, 255>>, 0),
      I64(<<0, 0, 0, 0, 1>>, 0),
      I64(<<255, 255, 255, 255, 255, 255, 255, 127>>, 0),
      I64(<<>>, 255), I64(<<0>>, 255), I64(<<0, 0, 0, 0, 0, 0, 0, 128>>, 0) }

\* every string over Alphabet of length n
RECURSIVE StringsOfLen(_, _)
StringsOfLen(alphabet, n) ==
    IF n = 0 THEN {<<>>}
    ELSE {<<c>> \o s : c \in alphabet, s \in StringsOfLen(alphabet, n - 1)}

Alphabet == {"0", "1", "x", "_", ",", "+"}

ShortStrings == UNION {StringsOfLen(Alphabet, n) : n \in 0..MaxStrLen}

\* decimal literals around the limits of the integer types: 255, 256,
\* 1000000, 2^32, 2^63 - 1, 2^64 - 1, 2^64, 2^128 - 1, 2^128
DecimalLiterals ==
    { <<"2", "5", "5">>, <<"2", "5", "6">>, <<"0", "0", "7">>,
      <<"1", "0", "0", "0", "0", "0", "0">>,
      <<"4", "2", "9", "4", "9", "6", "7", "2", "9", "6">>,
      <<"9", "2", "2", "3", "3", "7", "2", "0", "3", "6", "8", "5", "4", "7",
        "7", "5", "8", "0", "7">>,
      <<"1", "8", "4", "4", "6", "7", "4", "4", "0", "7", "3", "7", "0", "9",
        "5", "5", "1", "6", "1", "5">>,
      <<"1", "8", "4", "4", "6", "7", "4", "4", "0", "7", "3", "7", "0", "9",
        "5", "5", "1", "6", "1", "6">>,
      <<"3", "4", "0", "2", "8", "2", "3", "6", "6", "9", "2", "0", "9", "3",
        "8", "4", "6", "3", "4", "6", "3", "3", "7", "4", "6", "0", "7", "4",
        "3", "1", "7", "6", "8", "2", "1", "1", "4", "5", "5">>,
      <<"3", "4", "0", "2", "8", "2", "3", "6", "6", "9", "2", "0", "9", "3",
        "8", "4", "6", "3", "4", "6", "3", "3", "7", "4", "6", "0", "7", "4",
        "3", "1", "7", "6", "8", "2", "1", "1", "4", "5", "6">> }

\* d with a run of 0..MaxSepRun separators put in at one position
SeparatedForms(d) ==
    {d} \cup
    { SubSeq(d, 1, p) \o [k \in 1..n |-> c] \o SubSeq(d, p + 1, Len(d)) :
        p \in 0..Len(d), n \in 1..MaxSepRun, c \in {"_", ","} }

\* d with a separator before every group of three digits
RECURSIVE Grouped(_, _)
Grouped(d, c) ==
    IF Len(d) <= 3 THEN d
    ELSE Grouped(SubSeq(d, 1, Len(d) - 3), c) \o <<c>>
         \o SubSeq(d, Len(d) - 2, Len(d))

DecimalStrings ==
    UNION {SeparatedForms(d) : d \in DecimalLiterals}
    \cup {Grouped(d, c) : d \in DecimalLiterals, c \in {"_", ","}}
    \cup {<<"+">> \o d : d \in DecimalLiterals}

HexStrings ==
    { <<"0", "x", "0", "1", "0", "2", "f", "f">>,
      <<"0", "1", "0", "2", "F", "F">>,
      <<"0", "x", "0", "x", "0", "1">>,
      <<"0", "X", "0", "1">>,
      <<"0", "x", "0", "1", "2">>,
      <<"0", "x", "0", "1", "0", "x">>,
      <<"a", "B", "c", "D">> }

Strings == ShortStrings \cup DecimalStrings \cup HexStrings

Leaves ==
    {VBool(b) : b \in BOOLEAN} \cup {VInteger(i) : i \in Integers64}
    \cup {VString(s) : s \in Strings} \cup {VFloat}

\* every sequence over set of length at most n
RECURSIVE SeqsUpTo(_, _)
SeqsUpTo(set, n) ==
    IF n = 0 THEN {<<>>}
    ELSE LET shorter == SeqsUpTo(set, n - 1)
         IN shorter \cup {Append(s, e) : s \in shorter, e \in set}

\* what the explored sequences and maps are built from
Elements1 ==
    { VBool(TRUE), VInteger(I64(<<7>>, 0)), VInteger(I64(<<255>>, 0)),
      VInteger(I64(<<0, 1>>, 0)), VString(<<"0", "1">>) }

Keys == {"a", "b"}

MapElements1 ==
    { VBool(TRUE), VInteger(I64(<<7>>, 0)), VInteger(I64(<<0, 1>>, 0)),
      VString(<<"0", "1">>) }

Containers1 ==
    {VSeq(vs) : vs \in SeqsUpTo(Elements1, MaxSeqLen)}
    \cup {VMap(kvs) : kvs \in SeqsUpTo(Keys \X MapElements1, MaxSeqLen)}

Elements2 ==
    { VBool(FALSE), VInteger(I64(<<7>>, 0)),
      VSeq(<<>>), VSeq(<<VSeq(<<>>)>>),
      VMap(<<<<"a", VInteger(I64(<<7>>, 0))>>, <<"b", VBool(TRUE)>>>>),
      VMap(<<<<"a", VInteger(I64(<<1>>, 0))>>, <<"b", VBool(FALSE)>>>>),
      VMap(<<<<"a", VInteger(I64(<<0, 1>>, 0))>>, <<"b", VBool(TRUE)>>>>) }

Containers2 ==
    {VSeq(vs) : vs \in SeqsUpTo(Elements2, MaxSeqLen)}
    \cup {VMap(kvs) : kvs \in SeqsUpTo({"a"} \X Elements2, MaxSeqLen)}

Values == Leaves \cup Containers1 \cup Containers2

(***************************************************************************)
(* The encoder step by step: one call of Type::encode_value_to, with the   *)
(* calls in progress on a stack.                                           *)
(*   [op: "encode", def, v]            a call of TypeDef::encode_value_to  *)
(*   [op: "array", ty, vs, n]          the loop of the Array rule          *)
(*   [op: "composite", fields, vs, n, last]  the loop of the Composite rule*)
(***************************************************************************)
VARIABLES
    ty,      \* the id of the type the caller resolved
    value,   \* the value to encode
    sink0,   \* the content of the output when encode is called
    sink,    \* the output
    stack,   \* the calls in progress, the innermost last
    result   \* "running", or what encode returned

vars == <<ty, value, sink0, sink, stack, result>>

Init ==
    /\ ty \in TypeIds
    /\ value \in Values
    /\ sink0 \in {<<>>, <<170>>}
    /\ sink = sink0
    /\ stack = <<[op |-> "encode", def |-> Registry[ty], v |-> value]>>
    /\ result = "running"

Top == stack[Len(stack)]
Callers == SubSeq(stack, 1, Len(stack) - 1)

\* the `?` operator and `Err(..)`: the error reaches the caller of encode,
\* nothing more is written
Raise(kind) ==
    /\ stack' = <<>>
    /\ result' = kind

\* Ok(()) of the innermost call
Return ==
    /\ stack' = Callers
    /\ result' = IF Len(stack) = 1 THEN "Ok" ELSE "running"

\* a variant of Finish that empties the output of what the call wrote when
\* the rule fails
Finish_Rollback(r) ==
    IF r.err = "Ok" THEN sink' = sink \o r.out /\ Return
    ELSE sink' = sink0 /\ Raise(r.err)

\* a rule that writes all its bytes and returns in one step
Finish(r) ==
    /\ sink' = sink \o r.out
    /\ IF r.err = "Ok" THEN Return ELSE Raise(r.err)

\* TypeDef::Primitive(primitive) => primitive.encode_value_to(..)
PrimitiveRule ==
    /\ result = "running"
    /\ Top.op = "encode" /\ Top.def.def = "Primitive"
    /\ Finish(EncodePrimitive(Top.def.kind, Top.v))
    /\ UNCHANGED <<ty, value, sink0>>

\* a variant of ArrayRule that takes a String for an array of any element
\* type
ArrayRule_AnyElementAsHex ==
    /\ result = "running"
    /\ Top.op = "encode" /\ Top.def.def = "Array"
    /\ LET elem == ResolveType(Top.def.param)
       IN IF elem.err # "Ok" THEN Raise(elem.err) /\ sink' = sink
          ELSE IF Top.v.k = "String"
          THEN Finish(EncodeByteString(Primitive("U8"), Top.v.s))
          ELSE IF Top.v.k = "Seq"
          THEN /\ stack' = Append(Callers, [op |-> "array", ty |-> elem.ty,
                                            vs |-> Top.v.vs, n |-> 1])
               /\ UNCHANGED <<sink, result>>
          ELSE Raise("TypeMismatch") /\ sink' = sink
    /\ UNCHANGED <<ty, value, sink0>>

\* a variant of ArrayRule that writes the number of elements in front of a
\* Seq, as the encoding of a Vec does
ArrayRule_LengthPrefixed ==
    /\ result = "running"
    /\ Top.op = "encode" /\ Top.def.def = "Array"
    /\ LET elem == ResolveType(Top.def.param)
       IN IF elem.err # "Ok" THEN Raise(elem.err) /\ sink' = sink
          ELSE IF Top.v.k = "String"
          THEN Finish(EncodeByteString(elem.ty, Top.v.s))
          ELSE IF Top.v.k = "Seq"
          THEN /\ stack' = Append(Callers, [op |-> "array", ty |-> elem.ty,
                                            vs |-> Top.v.vs, n |-> 1])
               /\ sink' = sink \o CompactLen(Len(Top.v.vs))
               /\ UNCHANGED result
          ELSE Raise("TypeMismatch") /\ sink' = sink
    /\ UNCHANGED <<ty, value, sink0>>

\* TypeDef::Array(array) => array.encode_value_to(..): the element type is
\* resolved, then a String is written as a whole and a Seq starts the loop
ArrayRule ==
    /\ result = "running"
    /\ Top.op = "encode" /\ Top.def.def = "Array"
    /\ LET elem == ResolveType(Top.def.param)
       IN IF elem.err # "Ok" THEN Raise(elem.err) /\ sink' = sink
          ELSE IF Top.v.k = "String"
          THEN Finish(EncodeByteString(elem.ty, Top.v.s))
          ELSE IF Top.v.k = "Seq"
          THEN /\ stack' = Append(Callers, [op |-> "array", ty |-> elem.ty,
                                            vs |-> Top.v.vs, n |-> 1])
               /\ UNCHANGED <<sink, result>>
          ELSE Raise("TypeMismatch") /\ sink' = sink
    /\ UNCHANGED <<ty, value, sink0>>

\* a variant of ArrayLoop that hands the whole sequence to the element
\* type instead of one element
ArrayLoop_SameValue ==
    /\ result = "running"
    /\ Top.op = "array"
    /\ IF Top.n <= Len(Top.vs)
       THEN /\ stack' = Callers \o <<[Top EXCEPT !.n = Top.n + 1],
                                     [op |-> "encode", def |-> Top.ty,
                                      v |-> VSeq(Top.vs)]>>
            /\ UNCHANGED result
       ELSE Return
    /\ UNCHANGED <<ty, value, sink0, sink>>

\* for value in values { ty.encode_value_to(registry, value, output)?; } Ok(())
ArrayLoop ==
    /\ result = "running"
    /\ Top.op = "array"
    /\ IF Top.n <= Len(Top.vs)
       THEN /\ stack' = Callers \o <<[Top EXCEPT !.n = Top.n + 1],
                                     [op |-> "encode", def |-> Top.ty,
                                      v |-> Top.vs[Top.n]]>>
            /\ UNCHANGED result
       ELSE Return
    /\ UNCHANGED <<ty, value, sink0, sink>>

\* a variant of CompositeRule that refuses a map with more or fewer
\* entries than the composite has fields
CompositeRule_Strict ==
    /\ result = "running"
    /\ Top.op = "encode" /\ Top.def.def = "Composite"
    /\ IF Top.v.k = "Map" /\ Len(Top.v.kvs) = Len(Top.def.fields)
       THEN /\ stack' = Append(Callers,
                   [op |-> "composite", fields |-> Top.def.fields,
                    vs |-> MapValues(Top.v), n |-> 1,
                    last |-> ZipLen(Top.def.fields, MapValues(Top.v))])
            /\ UNCHANGED result
       ELSE Raise("TypeMismatch")
    /\ UNCHANGED <<ty, value, sink0, sink>>

\* TypeDef::Composite(composite) => composite.encode_value_to(..)
CompositeRule ==
    /\ result = "running"
    /\ Top.op = "encode" /\ Top.def.def = "Composite"
    /\ IF Top.v.k = "Map"
       THEN /\ stack' = Append(Callers,
                   [op |-> "composite", fields |-> Top.def.fields,
                    vs |-> MapValues(Top.v), n |-> 1,
                    last |-> ZipLen(Top.def.fields, MapValues(Top.v))])
            /\ UNCHANGED result
       ELSE Raise("TypeMismatch")
    /\ UNCHANGED <<ty, value, sink0, sink>>

\* for (field, value) in zip { field.encode_value_to(..)?; } Ok(()), with
\* Field::encode_value_to resolving the type of the field
CompositeLoop ==
    /\ result = "running"
    /\ Top.op = "composite"
    /\ IF Top.n <= Top.last
       THEN LET fty == ResolveType(Top.fields[Top.n].ty)
            IN IF fty.err # "Ok" THEN Raise(fty.err)
               ELSE /\ stack' = Callers \o <<[Top EXCEPT !.n = Top.n + 1],
                                             [op |-> "encode", def |-> fty.ty,
                                              v |-> Top.vs[Top.n]]>>
                    /\ UNCHANGED result
       ELSE Return
    /\ UNCHANGED <<ty, value, sink0, sink>>

\* def => unimplemented!("TypeDef::encode_value {:?}", def)
Unimplemented ==
    /\ result = "running"
    /\ Top.op = "encode"
    /\ Top.def.def \notin {"Array", "Primitive", "Composite"}
    /\ Raise("panic")
    /\ UNCHANGED <<ty, value, sink0, sink>>

Next ==
    \/ PrimitiveRule
    \/ ArrayRule
    \/ ArrayLoop
    \/ CompositeRule
    \/ CompositeLoop
    \/ Unimplemented

Spec == Init /\ [][Next]_vars

\* The calls whose end is checked: nested values against the arrays and
\* composites of the registry, those that refer to themselves included.
NestedElements ==
    { VSeq(<<>>), VSeq(<<VSeq(<<>>)>>), VInteger(I64(<<7>>, 0)),
      VMap(<<<<"a", VInteger(I64(<<7>>, 0))>>, <<"b", VBool(TRUE)>>>>) }

NestedValues ==
    {VSeq(vs) : vs \in SeqsUpTo(NestedElements, MaxSeqLen)}
    \cup {VMap(kvs) : kvs \in SeqsUpTo({"a"} \X NestedElements, MaxSeqLen)}

NestedInit ==
    /\ ty \in {"Nest", "Link", "[Pair]", "Pair", "[u8]", "WithEnum", "Broken",
               "[?]", "Enum", "u8"}
    /\ value \in NestedValues \cup {VInteger(I64(<<7>>, 0))}
    /\ sink0 = <<>>
    /\ sink = sink0
    /\ stack = <<[op |-> "encode", def |-> Registry[ty], v |-> value]>>
    /\ result = "running"

\* encode runs on its caller's thread until it returns: no step is ever
\* withheld
LiveSpec == NestedInit /\ [][Next]_vars /\ WF_vars(Next)

(***************************************************************************)
(* The two descriptions of the encoder agree.                              *)
(***************************************************************************)
StepsAgreeWithFunction ==
    result # "running" =>
        LET r == EncodeValueTo(Registry[ty], value)
        IN result = r.err /\ sink = sink0 \o r.out

(***************************************************************************)
(* Arithmetic the properties are stated with: numbers as decimal digit     *)
(* strings, computed apart from the encoder's own conversions.             *)
(***************************************************************************)
\* the quotient and remainder of a little-endian number by 10
RECURSIVE DivMod10From(_, _, _)
DivMod10From(bs, k, rem) ==
    IF k = 0 THEN [quot |-> bs, rem |-> rem]
    ELSE LET t == rem * 256 + bs[k]
         IN DivMod10From([bs EXCEPT ![k] = t \div 10], k - 1, t % 10)

\* the decimal digits of a little-endian unsigned number, no leading zero
RECURSIVE ToDecimal(_)
ToDecimal(bs) ==
    LET r == DivMod10From(bs, Len(bs), 0)
        d == <<DecDigits[r.rem + 1]>>
    IN IF \A k \in 1..Len(bs) : r.quot[k] = 0 THEN d
       ELSE ToDecimal(r.quot) \o d

IsDecimal(d) == Len(d) > 0 /\ \A k \in 1..Len(d) : ToDigit(d[k]) >= 0

RECURSIVE StripLeadingZeros(_)
StripLeadingZeros(d) ==
    IF Len(d) > 1 /\ d[1] = "0" THEN StripLeadingZeros(Tail(d)) ELSE d

\* a < b for decimal digit strings without leading zeros
RECURSIVE DigitsLess(_, _, _)
DigitsLess(a, b, k) ==
    IF k > Len(a) THEN FALSE
    ELSE IF a[k] # b[k] THEN ToDigit(a[k]) < ToDigit(b[k])
    ELSE DigitsLess(a, b, k + 1)

DecimalLess(a, b) ==
    Len(a) < Len(b) \/ (Len(a) = Len(b) /\ DigitsLess(a, b, 1))

\* 2^(8w) in decimal, for the widths of the unsigned kinds
Limit(w) ==
    CASE w = 1 -> <<"2", "5", "6">>
      [] w = 2 -> <<"6", "5", "5", "3", "6">>
      [] w = 4 -> <<"4", "2", "9", "4", "9", "6", "7", "2", "9", "6">>
      [] w = 8 -> <<"1", "8", "4", "4", "6", "7", "4", "4", "0", "7", "3",
                    "7", "0", "9", "5", "5", "1", "6", "1", "6">>
      [] w = 16 -> <<"3", "4", "0", "2", "8", "2", "3", "6", "6", "9", "2",
                     "0", "9", "3", "8", "4", "6", "3", "4", "6", "3", "3",
                     "7", "4", "6", "0", "7", "4", "3", "1", "7", "6", "8",
                     "2", "1", "1", "4", "5", "6">>

\* the string without its '_' and ','
RECURSIVE WithoutSeparators(_)
WithoutSeparators(s) ==
    IF Len(s) = 0 THEN <<>>
    ELSE IF Head(s) = "_" \/ Head(s) = "," THEN WithoutSeparators(Tail(s))
    ELSE <<Head(s)>> \o WithoutSeparators(Tail(s))

\* two hex characters for one byte
HexChars(upper) == DecDigits \o (IF upper THEN UpperHex ELSE LowerHex)

ToHex(bytes, upper) ==
    [k \in 1..(2 * Len(bytes)) |->
        IF k % 2 = 1
        THEN HexChars(upper)[(bytes[(k + 1) \div 2] \div 16) + 1]
        ELSE HexChars(upper)[(bytes[k \div 2] % 16) + 1]]

IsHexChar(c) == \E k \in 1..16 : c = HexChars(TRUE)[k] \/ c = HexChars(FALSE)[k]

LowerCase(s) ==
    [k \in 1..Len(s) |->
        IF IndexIn(s[k], UpperHex, 1) > 0
        THEN LowerHex[IndexIn(s[k], UpperHex, 1)] ELSE s[k]]

\* s without one leading "0x", when it has one
WithoutPrefix0x(s) ==
    IF Len(s) >= 2 /\ SubSeq(s, 1, 2) = <<"0", "x">>
    THEN SubSeq(s, 3, Len(s)) ELSE s

IsHexBody(h) == Len(h) % 2 = 0 /\ \A k \in 1..Len(h) : IsHexChar(h[k])

IsPrefix(a, b) == Len(a) <= Len(b) /\ SubSeq(b, 1, Len(a)) = a

\* what the call has appended so far
Appended == SubSeq(sink, Len(sink0) + 1, Len(sink))

Done == result # "running"

RootDef == Registry[ty]

\* the concatenation of the sequences in a sequence
RECURSIVE Concat(_)
Concat(ss) == IF Len(ss) = 0 THEN <<>> ELSE Head(ss) \o Concat(Tail(ss))

(***************************************************************************)
(* Properties                                                              *)
(***************************************************************************)
RootIsUnsigned == RootDef.def = "Primitive" /\ IntWidth(RootDef.kind) > 0

\* C1: for U8, U16, U32, U64, U128 and every Integer, a value inside the
\* unsigned range of the kind is written as exactly 1, 2, 4, 8 or 16 bytes
\* holding that value in little-endian order; a value outside it (negative
\* or too large) fails with NumericConversion and nothing is written.
C1_IntegerWidthAndRange ==
    (Done /\ RootIsUnsigned /\ value.k = "Integer") =>
        LET w == IntWidth(RootDef.kind)
            inRange == /\ ~IsNegative(value.i)
                       /\ DecimalLess(ToDecimal(value.i), Limit(w))
        IN IF inRange
           THEN /\ result = "Ok"
                /\ IsPrefix(sink0, sink)
                /\ Len(Appended) = w
                /\ ToDecimal(Appended) = ToDecimal(value.i)
           ELSE /\ result = "NumericConversion"
                /\ sink = sink0

\* C1, witness: 2^32 - 1 is written as u32, and 2^32 is refused
C1_Witness ==
    /\ ty = "u32" /\ result = "Ok"
    /\ value = VInteger(I64(<<255, 255, 255, 255>>, 0))
    /\ sink = sink0 \o <<255, 255, 255, 255>>

RootIsBigUnsigned == RootDef.def = "Primitive" /\ RootDef.kind \in {"U64", "U128"}

\* the Integer values whose decimal digits are d
IntegersOf(d) ==
    {i \in Integers64 : ~IsNegative(i) /\ ToDecimal(i) = StripLeadingZeros(d)}

\* what C2 says of a String whose characters other than '_' and ',' are d
NumericStringRule(d) ==
    LET w == IntWidth(RootDef.kind)
    IN IF IsDecimal(d) /\ DecimalLess(StripLeadingZeros(d), Limit(w))
       THEN /\ result = "Ok"
            /\ IsPrefix(sink0, sink)
            /\ Len(Appended) = w
            /\ ToDecimal(Appended) = StripLeadingZeros(d)
            /\ \A i \in IntegersOf(d) :
                  EncodeValueTo(RootDef, VInteger(i)) = Ok(Appended)
       ELSE /\ result = "NumericParse"
            /\ sink = sink0

\* C2 as stated: for U64 and U128 a String of the decimal digits of n with
\* '_' and ',' anywhere among them encodes to the bytes of the Integer n,
\* and a String that is no decimal literal in range once the separators are
\* removed fails with NumericParse.
C2_AsStated ==
    (Done /\ RootIsBigUnsigned /\ value.k = "String") =>
        NumericStringRule(WithoutSeparators(value.s))

\* C2, amended: as stated, except that one '+' in front of the digits
\* (after the separators are removed) is accepted and ignored.
C2_NumericString ==
    (Done /\ RootIsBigUnsigned /\ value.k = "String") =>
        LET d == WithoutSeparators(value.s)
        IN NumericStringRule(IF Len(d) > 0 /\ d[1] = "+" THEN Tail(d) ELSE d)

\* C2, witness: "1_000_000" is written as the u64 1000000
C2_Witness ==
    /\ ty = "u64" /\ result = "Ok"
    /\ value = VString(<<"1", "_", "0", "0", "0", "_", "0", "0", "0">>)
    /\ sink = sink0 \o <<64, 66, 15, 0, 0, 0, 0, 0>>
    /\ EncodeValueTo(RootDef, VInteger(I64(<<64, 66, 15>>, 0))) = Ok(Appended)

\* the root is an array whose element type resolves to Primitive(U8)
RootIsByteArray ==
    /\ RootDef.def = "Array"
    /\ ResolveType(RootDef.param) = [err |-> "Ok", ty |-> Primitive("U8")]

\* the Integer that holds one byte
ByteValue(b) == VInteger(I64(<<b>>, 0))

IsByteValue(v) == v.k = "Integer" /\ \E b \in 0..255 : v = ByteValue(b)

\* C3: for an array of U8, a hex String, with or without a leading "0x",
\* and the Seq of Integers in 0..=255 listing the same bytes both succeed
\* and append the same output, one byte per element, no length prefix.
C3_HexStringEqualsByteSeq ==
    /\ (Done /\ RootIsByteArray /\ value.k = "Seq"
          /\ \A n \in 1..Len(value.vs) : IsByteValue(value.vs[n])) =>
            /\ result = "Ok"
            /\ IsPrefix(sink0, sink)
            /\ Len(Appended) = Len(value.vs)
            /\ \A n \in 1..Len(value.vs) : value.vs[n] = ByteValue(Appended[n])
            /\ \A upper \in BOOLEAN, prefix \in {<<>>, <<"0", "x">>} :
                  EncodeValueTo(RootDef, VString(prefix \o ToHex(Appended, upper)))
                      = Ok(Appended)
    /\ (Done /\ RootIsByteArray /\ value.k = "String"
          /\ IsHexBody(WithoutPrefix0x(value.s))) =>
            /\ result = "Ok"
            /\ IsPrefix(sink0, sink)
            /\ ToHex(Appended, FALSE) = LowerCase(WithoutPrefix0x(value.s))
            /\ EncodeValueTo(RootDef, VSeq([n \in 1..Len(Appended) |->
                                              ByteValue(Appended[n])]))
                  = Ok(Appended)

\* C3, witness: "0x0102ff" is written as 01 02 ff, as is [1, 2, 255]
C3_Witness ==
    /\ ty = "[u8]" /\ result = "Ok"
    /\ value = VString(<<"0", "x", "0", "1", "0", "2", "f", "f">>)
    /\ sink = sink0 \o <<1, 2, 255>>
    /\ EncodeValueTo(RootDef, VSeq(<<ByteValue(1), ByteValue(2), ByteValue(255)>>))
          = Ok(<<1, 2, 255>>)

\* C9: for an array of U8 and a String, one optional leading "0x" is
\* removed and the rest decoded as hex: any other content in the rest (a
\* second "0x", an odd number of digits) fails with HexDecodeError, else
\* the decoded bytes are appended in order.
C9_OnePrefixStripped ==
    (Done /\ RootIsByteArray /\ value.k = "String") =>
        LET rest == WithoutPrefix0x(value.s)
        IN IF IsHexBody(rest)
           THEN /\ result = "Ok"
                /\ IsPrefix(sink0, sink)
                /\ ToHex(Appended, FALSE) = LowerCase(rest)
           ELSE /\ result = "HexDecodeError"
                /\ sink = sink0

\* the pairs the Composite rule forms, as the claim describes them: field
\* n with the n-th value of the map, for n up to the shorter length
PairCount ==
    IF Len(RootDef.fields) <= Len(value.kvs)
    THEN Len(RootDef.fields) ELSE Len(value.kvs)

PairResult(n) == EncodeField(RootDef.fields[n], value.kvs[n][2])

\* the map with other keys at the same positions
Rekeyed(m, keys) == VMap([n \in 1..Len(m.kvs) |-> <<keys[n], m.kvs[n][2]>>])

ShapeMatches(def, v) ==
    CASE def.def = "Composite" -> v.k = "Map"
      [] def.def = "Array" ->
            \/ v.k = "Seq"
            \/ /\ v.k = "String"
               /\ ResolveType(def.param) = [err |-> "Ok", ty |-> Primitive("U8")]
      [] def.def = "Primitive" ->
            CASE def.kind = "Bool" -> v.k = "Bool"
              [] def.kind = "Str" -> v.k = "String"
              [] def.kind \in {"U8", "U16", "U32"} -> v.k = "Integer"
              [] def.kind \in {"U64", "U128"} -> v.k \in {"Integer", "String"}
              [] OTHER -> FALSE
      [] OTHER -> FALSE

\* the type definitions that accept some shape
HasEncoding(def) ==
    \/ def.def \in {"Array", "Composite"}
    \/ def.def = "Primitive"
          /\ def.kind \in {"Bool", "Str", "U8", "U16", "U32", "U64", "U128"}

\* the call at hand is about to encode a value of the wrong shape
MismatchAtHand ==
    /\ result = "running"
    /\ Top.op = "encode"
    /\ HasEncoding(Top.def)
    /\ ~ShapeMatches(Top.def, Top.v)

\* after a TypeMismatch the output is what it was at the call plus what the
\* nodes before the mismatching one wrote, and it stays so
MismatchLeavesEarlierBytes ==
    /\ [](result = "TypeMismatch" =>
            sink = sink0 \o EncodeValueTo(RootDef, value).out)
    /\ [][result = "TypeMismatch" => UNCHANGED <<sink, result>>]_vars

\* C5 as stated: whenever the shape of a Value does not match the type
\* definition it is encoded against, encode fails with TypeMismatch, the
\* mismatching node appends nothing and neither does any later node.
C5_AsStated ==
    /\ [][MismatchAtHand => (result' = "TypeMismatch" /\ sink' = sink)]_vars
    /\ MismatchLeavesEarlierBytes

\* C5, amended: as stated, for an Array only when its element type
\* resolves: the Array rule resolves the element type before it looks at
\* the value, so with an unknown element type the error is UnknownType.
C5_ShapeMismatch ==
    /\ [][(MismatchAtHand /\ (Top.def.def = "Array" =>
                                ResolveType(Top.def.param).err = "Ok"))
            => (result' = "TypeMismatch" /\ sink' = sink)]_vars
    /\ MismatchLeavesEarlierBytes

\* C5, witness: [a: U8, b: Bool] against values [7, 7]: 07 is written,
\* then the second 7 is no Bool
C5_Witness ==
    /\ ty = "Pair" /\ result = "TypeMismatch"
    /\ value.k = "Map"
    /\ MapValues(value) = <<ByteValue(7), ByteValue(7)>>
    /\ sink = sink0 \o <<7>>

\* the type definitions the encoder has no rule for
IsUnsupported(def) ==
    \/ def.def \notin {"Array", "Composite", "Primitive"}
    \/ def.def = "Primitive" /\ ~HasEncoding(def)

\* C6: meeting a type definition other than Primitive, Array or Composite,
\* or a primitive kind with no encoding (Char, a signed kind), makes encode
\* return the error UnsupportedType, and the node appends nothing.
C6_UnsupportedIsAnError ==
    [][(result = "running" /\ Top.op = "encode" /\ IsUnsupported(Top.def))
         => (result' = "UnsupportedType" /\ sink' = sink)]_vars

\* C7: the output only grows: at every step of encode, also on the way to
\* a failure, the earlier content is a prefix of the later content.
C7_SinkAppendOnly ==
    /\ [][IsPrefix(sink, sink')]_vars
    /\ [](IsPrefix(sink0, sink))

\* C7, witness: a call that failed after it had written something
C7_Witness ==
    /\ result \notin {"running", "Ok"}
    /\ Len(sink) > Len(sink0)
    /\ IsPrefix(sink0, sink)

\* C8: for an Array and a Seq e1..ek whose elements all encode against the
\* element type, the output is enc(e1) ++ .. ++ enc(ek) and nothing else;
\* the empty Seq appends nothing and succeeds.
C8_ArrayIsConcatenation ==
    (Done /\ RootDef.def = "Array" /\ value.k = "Seq"
       /\ ResolveType(RootDef.param).err = "Ok") =>
        LET elem == ResolveType(RootDef.param).ty
            enc == [n \in 1..Len(value.vs) |-> EncodeValueTo(elem, value.vs[n])]
        IN (\A n \in 1..Len(value.vs) : enc[n].err = "Ok") =>
              /\ result = "Ok"
              /\ sink = sink0 \o Concat([n \in 1..Len(value.vs) |-> enc[n].out])
              /\ Len(value.vs) = 0 => sink = sink0

\* C8, witness: an array of [a: U8, b: Bool] with two elements
C8_Witness ==
    /\ ty = "[Pair]" /\ result = "Ok"
    /\ value.k = "Seq" /\ Len(value.vs) = 2
    /\ sink = sink0 \o <<7, 1, 1, 0>>

\* the values directly inside a value
Children(v) ==
    IF v.k = "Seq" THEN v.vs ELSE IF v.k = "Map" THEN MapValues(v) ELSE <<>>

RECURSIVE ValueDepth(_)
RECURSIVE DepthOfDeepest(_, _)
DepthOfDeepest(vs, n) ==
    IF n > Len(vs) THEN 0
    ELSE LET d == ValueDepth(vs[n])
             rest == DepthOfDeepest(vs, n + 1)
         IN IF d > rest THEN d ELSE rest

ValueDepth(v) == 1 + DepthOfDeepest(Children(v), 1)

\* the value a call on the stack works on: the value handed to it, or for
\* a loop the elements yet to be handed on
FrameIsOn(frame, v) ==
    IF frame.op = "encode" THEN frame.v = v
    ELSE v.k \in {"Seq", "Map"} /\ frame.vs = Children(v)

\* every call in progress works on an element of the value its caller
\* works on, the outermost on the value given to encode
CallsDescend ==
    /\ Len(stack) > 0 => FrameIsOn(stack[1], value)
    /\ \A k \in 1..(Len(stack) - 1) :
          /\ stack[k].op \in {"array", "composite"}
          /\ stack[k].n > 1
          /\ FrameIsOn(stack[k + 1], stack[k].vs[stack[k].n - 1])

\* C10: encode ends, with success or an error, for every value and also
\* for type definitions that refer to themselves: every call made by the
\* Array or the Composite rule is on a value directly inside the current
\* one, so there are never more calls in progress than the value is deep.
C10_Terminates ==
    /\ <>Done
    /\ [](CallsDescend /\ Len(stack) <= ValueDepth(value))

\* C10, witness: an array of itself, three levels of value deep, is done
C10_Witness ==
    /\ ty = "Nest" /\ result = "Ok"
    /\ value = VSeq(<<VSeq(<<VSeq(<<>>)>>), VSeq(<<>>)>>)

=============================================================================
